---- MODULE Spec2Model ----
(***************************************************************************)
(* Ledger core of the Tabdil balance service: vendors, phone numbers,      *)
(* deposit requests (VendorTransaction) and transfers                      *)
(* (PhoneNumberTransaction), as implemented in api/views.py,               *)
(* api/serializers.py and core/models.py on a PostgreSQL store.            *)
(*                                                                         *)
(* A request is a process: it takes row locks (select_for_update), issues  *)
(* its statements inside transaction.atomic, and leaves the atomic block   *)
(* by commit or rollback.  Statements of an open transaction are kept in   *)
(* the request's write set `w` and reach the tables only at commit.        *)
(*                                                                         *)
(* Spec is the ledger.  The cache code of core/cache.py that follows a     *)
(* commit, and the cached read paths, read and write only the cache; they  *)
(* are the further actions of SpecCache.                                   *)
(***************************************************************************)
EXTENDS Integers, Sequences, FiniteSets, TLC

\* ------------------------------------------------------------------ bounds
MaxReq == 2          \* number of requests a behaviour submits
MaxAmount == 2       \* largest amount a request carries
MaxFaults == 1       \* store failures injected in one behaviour
MaxReads == 2        \* cached reads (list / retrieve) in one behaviour
InitBalance == MaxAmount + 1   \* balance every vendor starts with

\* --------------------------------------------------------------- constants
PENDING == "PENDING"
APPROVED == "APPROVED"
REJECTED == "REJECTED"
TRANSACTION_STATE == {PENDING, APPROVED, REJECTED}

Omitted == "<omitted>"          \* a field the request body does not carry
Admin == "admin"

Vendors == {"v1", "v2"}
Phones == {"p1", "p2", "p3"}
Reqs == 1..MaxReq

\* response status codes (kept as strings: they are only compared)
HTTP_200_OK == "200"
HTTP_201_CREATED == "201"
HTTP_204_NO_CONTENT == "204"
HTTP_400_BAD_REQUEST == "400"
HTTP_500_SERVER_ERROR == "500"      \* an exception no handler converts
NoStatus == "-"

VARIABLES
    vendors,              \* Vendor table: id -> [balance, total_sell]
    phone_numbers,        \* PhoneNumber table: id -> [vendor, balance]
    vendor_transactions,  \* VendorTransaction table, row id = index
    phone_transactions,   \* PhoneNumberTransaction table, row id = index
    locks,                \* row locks held: set of <<row, request>>
    req,                  \* the requests
    faults,               \* store failures injected so far
    cache,                \* the cache: key -> cached response data
    deleted,              \* request -> the keys its cache code deleted
    rd,                   \* the reading request (list / retrieve)
    cache_up              \* whether the cache server answers

cvars == <<cache, deleted, rd, cache_up>>

vars == <<vendors, phone_numbers, vendor_transactions, phone_transactions,
          locks, req, faults, cvars>>

\* ----------------------------------------------------------------- helpers
NoWrites == [balance |-> 0, total_sell |-> 0, phone |-> 0, row |-> FALSE,
             state |-> Omitted, reject_reason |-> Omitted]

\* A request: its inputs (user, phone, amount, tx, state, reject_reason), what
\* it has read (snap: the vendor balance validate saw; obj_state: the state of
\* the vendor_transaction object), its write set, whether the connection is
\* marked needs_rollback (failed), whether an exception leaves the atomic
\* block (raised), and its response.
IdleReq == [kind |-> "none", pc |-> "idle", user |-> Admin, phone |-> "p1",
            amount |-> 0, tx |-> 0, state |-> Omitted, reject_reason |-> Omitted,
            snap |-> 0, obj_state |-> Omitted, w |-> NoWrites,
            failed |-> FALSE, raised |-> FALSE,
            status |-> NoStatus, err |-> "none",
            resp_state |-> Omitted, resp_balance |-> 0,
            instance |-> <<>>]

VendorRow(v) == <<"vendor", v>>
PhoneRow(p) == <<"phone", p>>
VtxRow(t) == <<"vtx", t>>

\* the queries without select_for_update: no row is waited for
RowFree_NoLock(row, r) == TRUE

\* select_for_update waits while another transaction holds the row
RowFree(row, r) == \A l \in locks : l[1] = row => l[2] = r

\* the locks of a finished transaction stay
Release_Leak(r) == locks

Release(r) == {l \in locks : l[2] # r}

\* an IntegerField: no CHECK constraint on the column
PositiveIntegerField_NoCheck(value) == TRUE

\* PositiveIntegerField: CHECK (balance >= 0) on the table
PositiveIntegerField(value) == value >= 0

\* serializers.IntegerField built for a PositiveIntegerField: min_value 0
AmountFieldValid(amount) == amount >= 0

\* ------------------------------------------------------------------- Init
InitLedger ==
    /\ vendors = [v \in Vendors |-> [balance |-> InitBalance, total_sell |-> 0]]
    /\ phone_numbers = [p \in Phones |->
           [vendor |-> IF p = "p3" THEN "v2" ELSE "v1", balance |-> 0]]
    /\ vendor_transactions =
           <<[vendor |-> "v1", amount |-> 1, state |-> PENDING,
              reject_reason |-> Omitted]>>
    /\ phone_transactions = <<>>
    /\ locks = {}
    /\ req = [r \in Reqs |-> IdleReq]
    /\ faults = 0

\* no key is cached, nothing is being read (user: who sent the reading
\* request; password: the one a token request carries)
NoKey == [cls |-> "-", kind |-> "-", pk |-> "-", path |-> "-"]
IdleReader == [pc |-> "idle", key |-> NoKey, data |-> <<>>, n |-> 0,
               status |-> NoStatus, user |-> Admin, password |-> "-"]
InitCache ==
    /\ cache = <<>>
    /\ deleted = <<>>
    /\ rd = IdleReader

Init == InitLedger /\ InitCache /\ cache_up = TRUE

\* only a negative amount is refused
validate_amount_NonNegative(value) == value >= 0

\* VendorTransactionSerializer.validate_amount: `if value <= 0: raise`
validate_amount(value) == value > 0

\* Requests are submitted in slot order.
CanStart(r) ==
    /\ req[r].pc = "idle"
    /\ IF r = 1 THEN TRUE ELSE req[r - 1].pc # "idle"

\* ------------------------------------------------ VendorTransaction.create
\* POST /vendor-transactions/ : validate_amount, then perform_create.
CreateDeposit(r) ==
    /\ CanStart(r)
    /\ \E v \in Vendors, a \in -1..MaxAmount :
         IF AmountFieldValid(a) /\ validate_amount(a)
         THEN /\ vendor_transactions' = Append(vendor_transactions,
                     [vendor |-> v, amount |-> a, state |-> PENDING,
                      reject_reason |-> Omitted])
              /\ req' = [req EXCEPT ![r] =
                     [IdleReq EXCEPT !.kind = "create_deposit", !.pc = "done",
                        !.user = v, !.amount = a,
                        !.tx = Len(vendor_transactions) + 1,
                        !.status = HTTP_201_CREATED]]
         ELSE /\ vendor_transactions' = vendor_transactions
              /\ req' = [req EXCEPT ![r] =
                     [IdleReq EXCEPT !.kind = "create_deposit", !.pc = "done",
                        !.user = v, !.amount = a,
                        !.status = HTTP_400_BAD_REQUEST, !.err = "InvalidAmount"]]
    /\ UNCHANGED <<vendors, phone_numbers, phone_transactions, locks, faults>>
    /\ UNCHANGED cvars

\* ------------------------------------ VendorTransactionViewSet.change_state
\* The admin's request body: state is a choice of TRANSACTION_STATE or is
\* left out; reject_reason is a text or is left out.
StartChangeState(r) ==
    /\ CanStart(r)
    /\ \E t \in 1..Len(vendor_transactions),
          s \in TRANSACTION_STATE \cup {Omitted},
          reason \in {Omitted, "why"} :
         req' = [req EXCEPT ![r] =
                    [IdleReq EXCEPT !.kind = "change_state", !.pc = "cs_lock_tx",
                       !.tx = t, !.state = s, !.reject_reason = reason]]
    /\ UNCHANGED <<vendors, phone_numbers, vendor_transactions,
                   phone_transactions, locks, faults>>
    /\ UNCHANGED cvars

\* select_for_update().select_related('vendor').get(pk=pk): the row of the
\* transaction is locked and read into the vendor_transaction object, the
\* joined vendor into vendor_transaction.vendor (snap).
CS_LockTx(r) ==
    /\ req[r].pc = "cs_lock_tx"
    /\ RowFree(VtxRow(req[r].tx), r)
    /\ locks' = locks \cup {<<VtxRow(req[r].tx), r>>}
    /\ req' = [req EXCEPT ![r].pc = "cs_settle",
                           ![r].obj_state = vendor_transactions[req[r].tx].state,
                           ![r].snap =
                               vendors[vendor_transactions[req[r].tx].vendor].balance]
    /\ UNCHANGED <<vendors, phone_numbers, vendor_transactions,
                   phone_transactions, faults>>
    /\ UNCHANGED cvars

\* only a second approval is refused: `state == constants.APPROVED`
IsPending_NotApproved(q) == q.obj_state # APPROVED

\* `if vendor_transaction.state != constants.PENDING: return 400`
IsPending(q) == q.obj_state = PENDING

\* serializer.validated_data.get('state', vendor_transaction.state):
\* partial=True applies no default, a field left out is absent.
NewState(r) ==
    IF req[r].state = Omitted THEN req[r].obj_state ELSE req[r].state

\* the supplied reason dropped
NewRejectReason_Empty(r) == ""

\* serializer.validated_data.get('reject_reason', '')
NewRejectReason(r) ==
    IF req[r].reject_reason = Omitted THEN "" ELSE req[r].reject_reason

\* the balance of the joined vendor object, read before the vendor's lock
ResponseBalance_Joined(r, delta) == req[r].snap + delta

\* response_data['vendor']: the vendor object of line 156, read under the
\* lock on its row and refreshed after the F() update by delta.
ResponseBalance(r, delta) ==
    vendors[vendor_transactions[req[r].tx].vendor].balance + delta

\* The statements of change_state between the lock and the end of the
\* atomic block.  fault: the statement at which the store fails
\* ("none", "tx_save", "vendor_save").
CS_Statements(r, fault) ==
    IF ~IsPending(req[r])
    THEN [req[r] EXCEPT !.status = HTTP_400_BAD_REQUEST, !.err = "NotPending"]
    ELSE IF fault = "tx_save"
    THEN [req[r] EXCEPT !.failed = TRUE, !.raised = TRUE]
    ELSE IF NewState(r) # APPROVED
    THEN [req[r] EXCEPT
             !.w.state = NewState(r), !.w.reject_reason = NewRejectReason(r),
             !.resp_state = NewState(r),
             !.resp_balance = ResponseBalance(r, 0)]
    ELSE IF fault = "vendor_save"
    THEN [req[r] EXCEPT !.failed = TRUE, !.raised = TRUE,
             !.w.state = NewState(r), !.w.reject_reason = NewRejectReason(r)]
    ELSE [req[r] EXCEPT
             !.w.state = NewState(r), !.w.reject_reason = NewRejectReason(r),
             !.w.balance = vendor_transactions[req[r].tx].amount,
             !.resp_state = NewState(r),
             !.resp_balance =
                 ResponseBalance(r, vendor_transactions[req[r].tx].amount)]

\* no atomic block: every statement that ran stays
Commits_Autocommit(q) == TRUE

\* an exception caught inside the block does not roll back
Commits_UnlessRaised(q) == ~q.raised

\* Leaving `with transaction.atomic()`: commit unless an exception leaves
\* the block or the connection is marked needs_rollback.
Commits(q) == ~q.failed /\ ~q.raised

\* the balance written from the object validate read, not F('balance')
CommitVendors_Stale(q, v) ==
    [vendors EXCEPT ![v].balance = q.snap + q.w.balance,
                    ![v].total_sell = @ + q.w.total_sell]

\* the UPDATE without its WHERE clause: every vendor row is written
CommitVendors_AllRows(q, v) ==
    [u \in Vendors |-> [balance |-> vendors[u].balance + q.w.balance,
                        total_sell |-> vendors[u].total_sell + q.w.total_sell]]

\* The tables after the write set of r is committed.
CommitVendors(q, v) ==
    [vendors EXCEPT ![v].balance = @ + q.w.balance,
                    ![v].total_sell = @ + q.w.total_sell]

CommitVendorTransactions(q) ==
    IF q.w.state = Omitted THEN vendor_transactions
    ELSE [vendor_transactions EXCEPT ![q.tx].state = q.w.state,
             ![q.tx].reject_reason = q.w.reject_reason]

\* Leaving the atomic block of change_state, and the response.
CS_Exit(q) ==
    IF q.raised THEN [q EXCEPT !.pc = "done", !.status = HTTP_500_SERVER_ERROR,
                                 !.err = "StoreUnavailable"]
    ELSE IF q.status # NoStatus THEN [q EXCEPT !.pc = "done"]
    ELSE [q EXCEPT !.pc = "done", !.status = HTTP_200_OK]

\* The rest of change_state once the row of the transaction is locked: the
\* joined vendor row is locked too (FOR UPDATE locks every joined table, and
\* line 156 locks it again), the statements run, the atomic block is left.
\* Nothing after the vendor lock waits, so it is one step.
CS_Settle(r) ==
    /\ req[r].pc = "cs_settle"
    /\ RowFree(VendorRow(vendor_transactions[req[r].tx].vendor), r)
    /\ \E fault \in {"none", "tx_save", "vendor_save"} :
         LET q == CS_Statements(r, fault) IN
         /\ fault # "none" => faults < MaxFaults /\ q.failed
         /\ faults' = IF fault # "none" THEN faults + 1 ELSE faults
         /\ IF Commits(q)
            THEN /\ vendors' = CommitVendors(q, vendor_transactions[q.tx].vendor)
                 /\ vendor_transactions' = CommitVendorTransactions(q)
            ELSE UNCHANGED <<vendors, vendor_transactions>>
         /\ req' = [req EXCEPT ![r] = CS_Exit(q)]
    /\ locks' = Release(r)
    /\ UNCHANGED <<phone_numbers, phone_transactions>>
    /\ UNCHANGED cvars

\* ------------------------------------------ PhoneNumberTransaction.create
\* a primary key no PhoneNumber row has
NoPhone == "p0"

\* the ownership test left out
Validate_NoOwnership(user, p, amount) ==
    IF ~AmountFieldValid(amount) THEN "InvalidAmount"
    ELSE IF p \notin DOMAIN phone_numbers THEN "NotOwned"
    ELSE IF vendors[user].balance < amount THEN "InsufficientBalance"
    ELSE IF amount <= 0 THEN "InvalidAmount"
    ELSE "none"

\* PhoneNumberTransactionSerializer.validate, run by is_valid before
\* perform_create: no lock is held and no transaction is open.  Before it
\* the fields are validated: the amount by its min_value, the phone number
\* by PrimaryKeyRelatedField, whose 400 for a key without a row is the
\* refusal of a phone number the vendor cannot use.
Validate(user, p, amount) ==
    IF ~AmountFieldValid(amount) THEN "InvalidAmount"
    ELSE IF p \notin DOMAIN phone_numbers THEN "NotOwned"
    ELSE IF phone_numbers[p].vendor # user THEN "NotOwned"
    ELSE IF vendors[user].balance < amount THEN "InsufficientBalance"
    ELSE IF amount <= 0 THEN "InvalidAmount"
    ELSE "none"

StartTransfer(r) ==
    /\ CanStart(r)
    /\ \E v \in Vendors, p \in Phones \cup {NoPhone}, a \in -1..MaxAmount :
         req' = [req EXCEPT ![r] =
            LET q == [IdleReq EXCEPT !.kind = "transfer", !.user = v,
                         !.phone = p, !.amount = a,
                         !.snap = vendors[v].balance]
            IN IF Validate(v, p, a) = "none"
               THEN [q EXCEPT !.pc = "t_lock_vendor"]
               ELSE [q EXCEPT !.pc = "done", !.status = HTTP_400_BAD_REQUEST,
                                !.err = Validate(v, p, a)]]
    /\ UNCHANGED <<vendors, phone_numbers, vendor_transactions,
                   phone_transactions, locks, faults>>
    /\ UNCHANGED cvars

\* Vendor.objects.select_for_update().get(user=self.request.user)
T_LockVendor(r) ==
    /\ req[r].pc = "t_lock_vendor"
    /\ RowFree(VendorRow(req[r].user), r)
    /\ locks' = locks \cup {<<VendorRow(req[r].user), r>>}
    /\ req' = [req EXCEPT ![r].pc = "t_settle"]
    /\ UNCHANGED <<vendors, phone_numbers, vendor_transactions,
                   phone_transactions, faults>>
    /\ UNCHANGED cvars

\* `except IntegrityError` names psycopg2's class; the ORM raises
\* django.db.utils.IntegrityError, which only `except Exception` catches:
\* the handler returns a Response and no exception leaves perform_create.
ExceptClause(exc) ==
    IF exc = "psycopg2.IntegrityError" THEN "raise ValidationError"
    ELSE "return Response"

\* The try block of perform_create. fault: the statement at which the
\* store fails ("none", "vendor_save", "phone_save", "serializer_save").
\* A failed Model.save marks the connection needs_rollback (`failed`).
T_Statements(r, fault) ==
    LET debit  == [req[r] EXCEPT 
                      !.w.balance = 0 - req[r].amount,
                      !.w.total_sell = req[r].amount]
        credit == [debit EXCEPT !.w.phone = req[r].amount]
        insert == [credit EXCEPT !.w.row = TRUE]
        caught(q, exc) ==
            IF ExceptClause(exc) = "raise ValidationError"
            THEN [q EXCEPT !.failed = TRUE, !.raised = TRUE,
                             !.status = HTTP_400_BAD_REQUEST,
                             !.err = "InsufficientBalance"]
            ELSE [q EXCEPT !.failed = TRUE]
    IN IF ~PositiveIntegerField(vendors[req[r].user].balance - req[r].amount)
       THEN caught(req[r], "django.db.utils.IntegrityError")
       ELSE IF fault = "vendor_save"
       THEN caught(req[r], "django.db.utils.OperationalError")
       ELSE IF fault = "phone_save"
       THEN caught(debit, "django.db.utils.OperationalError")
       ELSE IF fault = "serializer_save"
       THEN caught(credit, "django.db.utils.OperationalError")
       ELSE insert

\* the credit of the phone number left out
CommitPhoneNumbers_NoCredit(q) == phone_numbers

CommitPhoneNumbers(q) ==
    [phone_numbers EXCEPT ![q.phone].balance = @ + q.w.phone]

CommitPhoneTransactions(q) ==
    IF q.w.row
    THEN Append(phone_transactions,
                [vendor |-> q.user, phone_number |-> q.phone,
                 amount |-> q.amount, state |-> APPROVED])
    ELSE phone_transactions

\* Leaving @transaction.atomic, then CreateModelMixin.create, which ignores
\* what perform_create returns and answers 201 unless it raised.
T_Exit(q) ==
    IF q.raised /\ q.status = NoStatus
    THEN [q EXCEPT !.pc = "done", !.status = HTTP_500_SERVER_ERROR,
                     !.err = "DoesNotExist"]
    ELSE IF q.raised THEN [q EXCEPT !.pc = "done"]
    ELSE [q EXCEPT !.pc = "done", !.status = HTTP_201_CREATED]

\* The rest of perform_create once the vendor row is locked: the phone row
\* is locked (PhoneNumber.objects.select_for_update().get(pk=...,
\* vendor=vendor); DoesNotExist is raised outside the try), the try block
\* runs, the atomic block is left.  A phone row is only ever locked under
\* its vendor's lock, so nothing here waits and it is one step.
T_Settle(r) ==
    /\ req[r].pc = "t_settle"
    /\ RowFree(PhoneRow(req[r].phone), r)
    /\ \E fault \in {"none", "vendor_save", "phone_save", "serializer_save"} :
         LET q == IF phone_numbers[req[r].phone].vendor = req[r].user
                  THEN T_Statements(r, fault)
                  ELSE [req[r] EXCEPT !.raised = TRUE]
         IN
         /\ fault # "none" => faults < MaxFaults /\ q.failed
         /\ fault # "none" =>
              PositiveIntegerField(vendors[req[r].user].balance - req[r].amount)
         /\ faults' = IF fault # "none" THEN faults + 1 ELSE faults
         /\ IF Commits(q)
            THEN /\ vendors' = CommitVendors(q, q.user)
                 /\ phone_numbers' = CommitPhoneNumbers(q)
                 /\ phone_transactions' = CommitPhoneTransactions(q)
            ELSE UNCHANGED <<vendors, phone_numbers, phone_transactions>>
         /\ req' = [req EXCEPT ![r] = T_Exit(q)]
    /\ locks' = Release(r)
    /\ UNCHANGED vendor_transactions
    /\ UNCHANGED cvars

\* ------------------------------------- VendorViewSet.update / partial_update
\* UpdateModelMixin.update: get_object() reads the row with a plain SELECT,
\* no lock and no transaction; the request body carries user fields only
\* (balance and total_sell are read_only).
StartVendorUpdate(r) ==
    /\ CanStart(r)
    /\ \E v \in Vendors :
         req' = [req EXCEPT ![r] =
                    [IdleReq EXCEPT !.kind = "vendor_update", !.pc = "vu_save",
                       !.instance = <<v, vendors[v]>>]]
    /\ UNCHANGED <<vendors, phone_numbers, vendor_transactions,
                   phone_transactions, locks, faults>>
    /\ UNCHANGED cvars

\* perform_update: serializer.save() ends in instance.save() without
\* update_fields: the UPDATE waits for the lock on the row and then sets
\* every column, balance and total_sell included, to the instance's values.
VendorUpdate_Save(r) ==
    /\ req[r].pc = "vu_save"
    /\ RowFree(VendorRow(req[r].instance[1]), r)
    /\ vendors' = [vendors EXCEPT ![req[r].instance[1]] = req[r].instance[2]]
    /\ req' = [req EXCEPT ![r].pc = "done", ![r].status = HTTP_200_OK]
    /\ UNCHANGED <<phone_numbers, vendor_transactions, phone_transactions,
                   locks, faults>>
    /\ UNCHANGED cvars

\* ------------------------------------------------------ PhoneNumberViewSet
\* update / partial_update by the owning vendor: get_object() as above.
StartPhoneUpdate(r) ==
    /\ CanStart(r)
    /\ \E p \in DOMAIN phone_numbers :
         req' = [req EXCEPT ![r] =
                    [IdleReq EXCEPT !.kind = "phone_update", !.pc = "pu_save",
                       !.user = phone_numbers[p].vendor, !.phone = p,
                       !.instance = <<p, phone_numbers[p]>>]]
    /\ UNCHANGED <<vendors, phone_numbers, vendor_transactions,
                   phone_transactions, locks, faults>>
    /\ UNCHANGED cvars

\* perform_update of ModelViewSet: serializer.save() -> instance.save()
PhoneUpdate_Save(r) ==
    /\ req[r].pc = "pu_save"
    /\ RowFree(PhoneRow(req[r].phone), r)
    /\ phone_numbers' = [phone_numbers EXCEPT ![req[r].phone] = req[r].instance[2]]
    /\ req' = [req EXCEPT ![r].pc = "done", ![r].status = HTTP_200_OK]
    /\ UNCHANGED <<vendors, vendor_transactions, phone_transactions,
                   locks, faults>>
    /\ UNCHANGED cvars

\* on_delete=models.CASCADE of PhoneNumberTransaction.phone_number
Cascade(p) ==
    SelectSeq(phone_transactions, LAMBDA row : row.phone_number # p)

\* destroy by the owning vendor: instance.delete() removes the row and, by
\* the cascade, every PhoneNumberTransaction addressed to it.  Taken here
\* when no request that names the phone number is inside a handler.
DestroyPhoneNumber(r) ==
    /\ CanStart(r)
    /\ \E p \in DOMAIN phone_numbers :
         /\ \A x \in Reqs : req[x].pc \in {"idle", "done"} \/ req[x].phone # p
         /\ RowFree(PhoneRow(p), r)
         /\ phone_numbers' = [x \in DOMAIN phone_numbers \ {p} |-> phone_numbers[x]]
         /\ phone_transactions' = Cascade(p)
         /\ req' = [req EXCEPT ![r] =
                       [IdleReq EXCEPT !.kind = "phone_destroy", !.pc = "done",
                          !.user = phone_numbers[p].vendor, !.phone = p,
                          !.status = HTTP_204_NO_CONTENT]]
    /\ UNCHANGED <<vendors, vendor_transactions, locks, faults>>
    /\ UNCHANGED cvars

\* ------------------------------------------------------- core/cache.py
\* The query strings a cached path is requested with.
Queries == {"", "?page=1"}
NoPk == "-"

\* f"{ViewSet}:list:{request.get_full_path()}"
_list_cache_key(cls, query) ==
    [cls |-> cls, kind |-> "list", pk |-> NoPk, path |-> query]

\* f"{ViewSet}:detail:{pk}:{request.get_full_path()}"
_detail_cache_key(cls, pk, query) ==
    [cls |-> cls, kind |-> "detail", pk |-> pk, path |-> query]

\* only the list pattern
_get_instance_related_caches_ListOnly(model, pk) ==
    {[cls |-> model \o "ViewSet", kind |-> "list", pk |-> NoPk]}

\* the patterns "*{ViewSet}:list:*" and "*{ViewSet}:detail:{pk}:*"
_get_instance_related_caches(model, pk) ==
    {[cls |-> model \o "ViewSet", kind |-> "list", pk |-> NoPk],
     [cls |-> model \o "ViewSet", kind |-> "detail", pk |-> pk]}

\* cache.keys(pattern): the cached keys a pattern matches
keys(pattern) ==
    {k \in DOMAIN cache : /\ k.cls = pattern.cls
                          /\ k.kind = pattern.kind
                          /\ k.pk = pattern.pk}

\* a cache operation on an unreachable server raises
IGNORE_EXCEPTIONS_Off == FALSE

\* OPTIONS 'IGNORE_EXCEPTIONS': True: the backend swallows the failure of an
\* operation; get and keys then return None.
IGNORE_EXCEPTIONS == TRUE

\* whether a cache operation raises into the view
CacheRaises == ~cache_up /\ ~IGNORE_EXCEPTIONS

\* cache.set / cache.delete_many on the cache as it is
cache_set(key, value) ==
    IF cache_up
    THEN [k \in DOMAIN cache \cup {key} |-> IF k = key THEN value ELSE cache[k]]
    ELSE cache
delete_many(ks) ==
    IF cache_up THEN [k \in DOMAIN cache \ ks |-> cache[k]] ELSE cache

\* What the view's queryset and serializer return for the key's path.
StoreValue(key) ==
    IF key.cls = "VendorViewSet"
    THEN IF key.kind = "list" THEN <<"vendors", vendors>>
         ELSE <<"vendor", vendors[key.pk]>>
    ELSE IF key.cls = "PhoneNumberViewSet"
    THEN IF key.kind = "list" THEN <<"phone_numbers", phone_numbers>>
         ELSE <<"phone_number", phone_numbers[key.pk]>>
    ELSE IF key.cls = "VendorTransactionViewSet"
    THEN IF key.kind = "list" THEN <<"vendor_transactions", vendor_transactions>>
         ELSE <<"vendor_transaction",
                vendor_transactions[CHOOSE t \in 1..Len(vendor_transactions) :
                                       ToString(t) = key.pk]>>
    ELSE <<"phone_transactions", phone_transactions>>

\* The paths a reader requests.
ReadTargets ==
    {_detail_cache_key("VendorViewSet", "v1", ""),
     _detail_cache_key("VendorTransactionViewSet", "1", ""),
     _list_cache_key("VendorViewSet", "?page=1")}
    \cup {_list_cache_key("VendorTransactionViewSet", q) : q \in Queries}

\* CacheMixin.list / retrieve up to the queryset: cache_get, and on a miss
\* super().list / retrieve reads the store.
R_Read ==
    /\ rd.pc = "idle"
    /\ rd.n < MaxReads
    /\ \E key \in ReadTargets :
         rd' = IF CacheRaises
               THEN [rd EXCEPT !.n = @ + 1, !.status = HTTP_500_SERVER_ERROR]
               ELSE IF cache_up /\ key \in DOMAIN cache
               THEN [rd EXCEPT !.n = @ + 1, !.status = HTTP_200_OK]
               ELSE [rd EXCEPT !.pc = "fill", !.key = key,
                               !.data = StoreValue(key), !.n = @ + 1,
                               !.status = NoStatus]
    /\ UNCHANGED <<vendors, phone_numbers, vendor_transactions,
                   phone_transactions, locks, req, faults>>
    /\ UNCHANGED <<cache, deleted, cache_up>>

\* the rest after a miss: cache_set(key, response.data, 300), the response
R_Fill ==
    /\ rd.pc = "fill"
    /\ cache' = cache_set(rd.key, rd.data)
    /\ rd' = [rd EXCEPT !.pc = "idle", !.key = NoKey, !.data = <<>>,
                        !.status = IF CacheRaises THEN HTTP_500_SERVER_ERROR
                                   ELSE HTTP_200_OK]
    /\ UNCHANGED <<vendors, phone_numbers, vendor_transactions,
                   phone_transactions, locks, req, faults>>
    /\ UNCHANGED <<deleted, cache_up>>

\* Whether the handler of q goes on to its cache code: change_state after
\* the atomic block unless it returned early or raised, CacheMixin.create
\* when the response is 200 or 201.
RunsCacheCode(q) ==
    /\ q.pc = "done"
    /\ IF q.kind = "change_state" THEN q.status = HTTP_200_OK
       ELSE q.status \in {HTTP_200_OK, HTTP_201_CREATED}

\* The keys the cache code of q deletes: invalidate_related_caches of the
\* vendor and of the transaction for change_state; for a create the one
\* list key of the viewset with the path of the POST.
KeysToDelete(q) ==
    IF q.kind = "change_state"
    THEN UNION {keys(pat) : pat \in
            _get_instance_related_caches("Vendor",
                                         vendor_transactions[q.tx].vendor)
            \cup _get_instance_related_caches("VendorTransaction",
                                              ToString(q.tx))}
    ELSE IF q.kind = "transfer"
    THEN {_list_cache_key("PhoneNumberTransactionViewSet", "")}
    ELSE {_list_cache_key("VendorTransactionViewSet", "")}

\* The cache code of request r, then its response.
Invalidate(r) ==
    /\ RunsCacheCode(req[r])
    /\ r \notin DOMAIN deleted
    /\ cache' = delete_many(KeysToDelete(req[r]))
    /\ deleted' = [x \in DOMAIN deleted \cup {r} |->
                     IF x # r THEN deleted[x]
                     ELSE IF cache_up
                     THEN KeysToDelete(req[r]) \cap DOMAIN cache ELSE {}]
    /\ req' = IF CacheRaises
              THEN [req EXCEPT ![r].status = HTTP_500_SERVER_ERROR,
                               ![r].err = "ConnectionError"]
              ELSE req
    /\ UNCHANGED <<vendors, phone_numbers, vendor_transactions,
                   phone_transactions, locks, faults>>
    /\ UNCHANGED <<rd, cache_up>>

Next ==
    \E r \in Reqs :
        \/ CreateDeposit(r)
        \/ StartChangeState(r)
        \/ CS_LockTx(r)
        \/ CS_Settle(r)
        \/ StartTransfer(r)
        \/ T_LockVendor(r)
        \/ T_Settle(r)

Spec == Init /\ [][Next]_vars

\* ----------------------------------------------- the ledger with its cache
\* The requests of the cached behaviours: approvals and rejections of the
\* first deposit of vendor v1 and transfers of MaxAmount from v1 to its
\* phone p1, no store failure; the cache server answers or is unreachable.
InScope(r) ==
    /\ req'[r].user \in {Admin, "v1"}
    /\ req'[r].phone = "p1"
    /\ req'[r].kind = "transfer" => req'[r].amount = MaxAmount
    /\ req'[r].state \in {Omitted, APPROVED, REJECTED}
    /\ req'[r].kind = "change_state" =>
          /\ req'[r].tx = 1
          /\ req'[r].state # Omitted /\ req'[r].reject_reason = Omitted
    /\ faults' = faults

InitWithCache == InitLedger /\ InitCache /\ cache_up \in BOOLEAN

NextCache ==
    \/ \E r \in Reqs : StartChangeState(r) /\ InScope(r)
    \/ \E r \in Reqs : CS_LockTx(r)
    \/ \E r \in Reqs : CS_Settle(r) /\ InScope(r)
    \/ \E r \in Reqs : StartTransfer(r) /\ InScope(r)
    \/ \E r \in Reqs : T_LockVendor(r)
    \/ \E r \in Reqs : T_Settle(r) /\ InScope(r)
    \/ \E r \in Reqs : Invalidate(r)
    \/ R_Read
    \/ R_Fill

SpecCache == InitWithCache /\ [][NextCache]_vars

\* ------------------------------------- the ledger with update and destroy
\* The requests of SpecCache's scope together with updates of a vendor's
\* and of a phone number's profile and the deletion of a phone number.
NextCrud ==
    \/ \E r \in Reqs : StartChangeState(r) /\ InScope(r)
    \/ \E r \in Reqs : CS_LockTx(r)
    \/ \E r \in Reqs : CS_Settle(r) /\ InScope(r)
    \/ \E r \in Reqs : StartTransfer(r) /\ InScope(r)
    \/ \E r \in Reqs : T_LockVendor(r)
    \/ \E r \in Reqs : T_Settle(r) /\ InScope(r)
    \/ \E r \in Reqs : StartVendorUpdate(r)
    \/ \E r \in Reqs : VendorUpdate_Save(r)
    \/ \E r \in Reqs : StartPhoneUpdate(r)
    \/ \E r \in Reqs : PhoneUpdate_Save(r)
    \/ \E r \in Reqs : DestroyPhoneNumber(r)

SpecCrud == Init /\ [][NextCrud]_vars

\* ------------------------------------------- the cache and who reads it
\* The users of the service: the admin (is_staff) and the vendors' users.
Users == {Admin} \cup Vendors
HTTP_401_UNAUTHORIZED == "401"
HTTP_404_NOT_FOUND == "404"

\* VendorTransactionViewSet.get_queryset: the rows a user may see
get_queryset(user) ==
    IF user = Admin THEN 1..Len(vendor_transactions)
    ELSE {t \in 1..Len(vendor_transactions) :
             vendor_transactions[t].vendor = user}

\* response.data of super().list / super().retrieve for the user: the
\* serialized rows of get_queryset, or the one of them with the key's pk
ResponseData(user, key) ==
    IF key.kind = "list"
    THEN <<"vendor_transactions",
           [t \in get_queryset(user) |-> vendor_transactions[t]]>>
    ELSE <<"vendor_transaction",
           vendor_transactions[CHOOSE t \in get_queryset(user) :
                                  ToString(t) = key.pk]>>

\* The paths of VendorTransactionViewSet the users request.
UserTargets ==
    {_list_cache_key("VendorTransactionViewSet", q) : q \in Queries}
    \cup {_detail_cache_key("VendorTransactionViewSet", "1", "")}

\* CacheMixin.list / retrieve for a request of user u (permission IsAdminUser
\* | IsVendorUser has passed): cache_get(key) under the key of class, pk and
\* path; a hit is answered with the cached data, a miss goes to the
\* queryset of u, where retrieve answers 404 for a row u may not see.
R_ReadAs(u) ==
    /\ rd.pc = "idle"
    /\ rd.n < MaxReads
    /\ \E key \in UserTargets :
         LET q == [rd EXCEPT !.n = @ + 1, !.user = u, !.password = "-",
                             !.key = key, !.data = <<>>]
         IN rd' = IF CacheRaises
                  THEN [q EXCEPT !.status = HTTP_500_SERVER_ERROR]
                  ELSE IF cache_up /\ key \in DOMAIN cache
                  THEN [q EXCEPT !.status = HTTP_200_OK, !.data = cache[key]]
                  ELSE IF /\ key.kind = "detail"
                          /\ \A t \in get_queryset(u) : ToString(t) # key.pk
                  THEN [q EXCEPT !.status = HTTP_404_NOT_FOUND]
                  ELSE [q EXCEPT !.pc = "fill", !.status = NoStatus,
                                 !.data = ResponseData(u, key)]
    /\ UNCHANGED <<vendors, phone_numbers, vendor_transactions,
                   phone_transactions, locks, req, faults>>
    /\ UNCHANGED <<cache, deleted, cache_up>>

\* f"jwt_token_{request.data.get('username')}"
jwt_token_key(username) ==
    [cls |-> "jwt_token", kind |-> "-", pk |-> NoPk, path |-> username]

\* TokenObtainPairView.post: the serializer authenticates username and
\* password; 200 with a token pair, or 401
Authenticates(username, password) == password = "right"

\* CachedTokenObtainPairView.post up to cache_set: a cached response for
\* the username is returned as it is; otherwise super().post, whose 200 is
\* then stored under the username (R_Fill).
TokenObtainPair ==
    /\ rd.pc = "idle"
    /\ rd.n < MaxReads
    /\ \E username \in Users, password \in {"right", "wrong"} :
         LET key == jwt_token_key(username)
             q == [rd EXCEPT !.n = @ + 1, !.user = username,
                             !.password = password, !.key = key,
                             !.data = <<>>]
         IN rd' = IF CacheRaises
                  THEN [q EXCEPT !.status = HTTP_500_SERVER_ERROR]
                  ELSE IF cache_up /\ key \in DOMAIN cache
                  THEN [q EXCEPT !.status = HTTP_200_OK, !.data = cache[key]]
                  ELSE IF Authenticates(username, password)
                  THEN [q EXCEPT !.pc = "fill", !.status = NoStatus,
                                 !.data = <<"token", username>>]
                  ELSE [q EXCEPT !.status = HTTP_401_UNAUTHORIZED]
    /\ UNCHANGED <<vendors, phone_numbers, vendor_transactions,
                   phone_transactions, locks, req, faults>>
    /\ UNCHANGED <<cache, deleted, cache_up>>

\* Deposits created by the vendors, lists and details read by the admin and
\* the vendors through the cache, and token requests.
NextUsers ==
    \/ \E r \in Reqs : CreateDeposit(r)
    \/ \E r \in Reqs : Invalidate(r)
    \/ \E u \in Users : R_ReadAs(u)
    \/ R_Fill
    \/ TokenObtainPair

SpecUsers == InitWithCache /\ [][NextUsers]_vars

\* ------------------------------------------------- the keys as they are
\* The keys and patterns of core/cache.py as texts.  A text is a sequence of
\* pieces (a word of a class name, a separator, a digit, a piece of a path),
\* so that a pattern is matched against what the key holds and not against
\* what it was built from.
class_names ==
    [User |-> <<"Admin", "User", "ViewSet">>,
     Vendor |-> <<"Vendor", "ViewSet">>,
     PhoneNumber |-> <<"Phone", "Number", "ViewSet">>,
     VendorTransaction |-> <<"Vendor", "Transaction", "ViewSet">>,
     PhoneNumberTransaction |-> <<"Phone", "Number", "Transaction", "ViewSet">>]
Models == DOMAIN class_names

\* the prefix each viewset is registered under
basename ==
    [User |-> "admin-users", Vendor |-> "vendors",
     PhoneNumber |-> "phone-numbers",
     VendorTransaction |-> "vendor-transactions",
     PhoneNumberTransaction |-> "phone-transactions"]

\* the pk of an instance, and the texts a URL names a pk with (the lookup
\* converts the text with int(), so "01" names the row 1)
InstancePks == {1, 2, 11}
UrlPks == {<<"1">>, <<"0", "1">>, <<"2">>, <<"1", "1">>}
DigitValue == [d \in {"0", "1", "2"} |-> IF d = "0" THEN 0 ELSE IF d = "1" THEN 1 ELSE 2]
RECURSIVE int(_)
int(text) ==
    IF text = <<>> THEN 0
    ELSE 10 * int(SubSeq(text, 1, Len(text) - 1)) + DigitValue[text[Len(text)]]
\* f"{instance.pk}": the decimal digits of the number
RECURSIVE str(_)
str(n) ==
    IF n < 10 THEN <<ToString(n)>>
    ELSE str(n \div 10) \o <<ToString(n % 10)>>

\* the query strings of the requests; a query string is free text and may
\* spell a piece of a key
QueryTexts ==
    {<<>>, <<"?page=", "1">>,
     <<"?q=">> \o class_names["Vendor"] \o <<":", "list", ":">>,
     <<"?q=">> \o class_names["Vendor"] \o <<":", "detail", ":", "1", ":">>}

\* request.get_full_path() of a list and of a detail request
ListPath(model, query) == <<"/api/", basename[model], "/">> \o query
DetailPath(model, urlpk, query) ==
    <<"/api/", basename[model], "/">> \o urlpk \o <<"/">> \o query

\* f"{self.__class__.__name__}:list:{request.get_full_path()}"
ListKeyText(model, query) ==
    class_names[model] \o <<":", "list", ":">> \o ListPath(model, query)

\* f"{self.__class__.__name__}:detail:{pk}:{request.get_full_path()}"
DetailKeyText(model, urlpk, query) ==
    class_names[model] \o <<":", "detail", ":">> \o urlpk \o <<":">>
        \o DetailPath(model, urlpk, query)

\* f"*{base_key}:list:*", f"*{base_key}:detail:{instance.pk}:*"
RelatedPatterns(model, pk) ==
    {<<"*">> \o class_names[model] \o <<":", "list", ":", "*">>,
     <<"*">> \o class_names[model] \o <<":", "detail", ":">> \o str(pk)
         \o <<":", "*">>}

\* the glob match of cache.keys(pattern): "*" stands for any text
RECURSIVE glob(_, _)
glob(pattern, text) ==
    IF pattern = <<>> THEN text = <<>>
    ELSE IF Head(pattern) = "*"
    THEN \E i \in 0..Len(text) :
            glob(Tail(pattern), SubSeq(text, i + 1, Len(text)))
    ELSE /\ text # <<>>
         /\ Head(text) = Head(pattern)
         /\ glob(Tail(pattern), Tail(text))

\* CacheMixin.list / retrieve on a miss: the response is stored under the
\* key of the request (the value kept is what the response shows: the
\* viewset's model and, for a detail, the pk of the row).
GetAndCache ==
    /\ rd.pc = "idle"
    /\ rd.n < MaxReads
    /\ \E model \in Models, query \in QueryTexts :
         \/ cache' = cache_set(ListKeyText(model, query),
                               [model |-> model, kind |-> "list", pk |-> 0])
         \/ \E urlpk \in UrlPks :
              cache' = cache_set(DetailKeyText(model, urlpk, query),
                          [model |-> model, kind |-> "detail",
                           pk |-> int(urlpk)])
    /\ rd' = [rd EXCEPT !.n = @ + 1]
    /\ UNCHANGED <<vendors, phone_numbers, vendor_transactions,
                   phone_transactions, locks, req, faults>>
    /\ UNCHANGED <<deleted, cache_up>>

\* invalidate_related_caches(instance): for each pattern, cache.keys and
\* delete_many
invalidate_related_caches ==
    /\ \E model \in Models, pk \in InstancePks :
         cache' = delete_many({k \in DOMAIN cache :
                     \E pattern \in RelatedPatterns(model, pk) :
                        glob(pattern, k)})
    /\ cache' # cache
    /\ UNCHANGED <<vendors, phone_numbers, vendor_transactions,
                   phone_transactions, locks, req, faults>>
    /\ UNCHANGED <<deleted, rd, cache_up>>

NextKeys == GetAndCache \/ invalidate_related_caches

SpecKeys == Init /\ [][NextKeys]_vars

\* ================================================================ properties
Started == {r \in Reqs : req[r].pc # "idle"}
AllDone == \A r \in Started : req[r].pc = "done"
Terminal(t) == vendor_transactions[t].state \in {APPROVED, REJECTED}

RECURSIVE SumApprovedUpTo(_, _)
SumApprovedUpTo(v, n) ==
    IF n = 0 THEN 0
    ELSE SumApprovedUpTo(v, n - 1) +
         (IF vendor_transactions[n].vendor = v /\ vendor_transactions[n].state = APPROVED
          THEN vendor_transactions[n].amount ELSE 0)
\* sum of the amounts of v's APPROVED deposits
SumApproved(v) == SumApprovedUpTo(v, Len(vendor_transactions))

RECURSIVE SumRowsUpTo(_, _)
SumRowsUpTo(v, n) ==
    IF n = 0 THEN 0
    ELSE SumRowsUpTo(v, n - 1) +
         (IF phone_transactions[n].vendor = v THEN phone_transactions[n].amount ELSE 0)
\* sum of the amounts of the PhoneNumberTransaction rows of v
SumRows(v) == SumRowsUpTo(v, Len(phone_transactions))

RECURSIVE SumBalances(_, _)
SumBalances(pn, ps) ==
    IF ps = {} THEN 0
    ELSE LET p == CHOOSE x \in ps : TRUE
         IN pn[p].balance + SumBalances(pn, ps \ {p})
PhonesOf(v) == {p \in Phones : phone_numbers[p].vendor = v}
\* sum of the balances of v's phone numbers
SumPhones(v) == SumBalances(phone_numbers, PhonesOf(v))

RECURSIVE SumAmounts(_)
SumAmounts(rs) ==
    IF rs = {} THEN 0
    ELSE LET r == CHOOSE x \in rs : TRUE
         IN req[r].amount + SumAmounts(rs \ {r})

Approvals(t) == {r \in Started : req[r].kind = "change_state" /\ req[r].tx = t}
Succeeded(rs) == {r \in rs : req[r].pc = "done" /\ req[r].status = HTTP_200_OK}

\* C1: two or more concurrent change_state calls that all request APPROVED
\* for one PENDING deposit of amount A on a vendor with balance B: exactly one
\* answers 200, every other answers 400 NotPending, the deposit ends APPROVED
\* and the balance is B + A.
C1_ConcurrentApprovals ==
    (/\ AllDone
     /\ faults = 0
     /\ Cardinality(Started) >= 2
     /\ \A r \in Started :
           req[r].kind = "change_state" /\ req[r].tx = 1 /\ req[r].state = APPROVED)
    => /\ Cardinality(Succeeded(Started)) = 1
       /\ \A r \in Started \ Succeeded(Started) :
             req[r].status = HTTP_400_BAD_REQUEST /\ req[r].err = "NotPending"
       /\ vendor_transactions[1].state = APPROVED
       /\ vendors["v1"].balance = InitBalance + vendor_transactions[1].amount

C1_Witness ==
    /\ AllDone
    /\ Started = Reqs
    /\ \A r \in Reqs :
          req[r].kind = "change_state" /\ req[r].tx = 1 /\ req[r].state = APPROVED
    /\ \E r \in Reqs : req[r].status = HTTP_200_OK
    /\ \E r \in Reqs : req[r].err = "NotPending"

\* C2: for the change_state calls on one transaction, whatever state each
\* requests (also none): exactly one answers 200 and every other answers 400
\* NotPending.
C2_ExactlyOneSuccess ==
    \A t \in 1..Len(vendor_transactions) :
        (/\ Approvals(t) # {}
         /\ faults = 0
         /\ \A r \in Approvals(t) : req[r].pc = "done")
        => /\ Cardinality(Succeeded(Approvals(t))) = 1
           /\ \A r \in Approvals(t) \ Succeeded(Approvals(t)) :
                 req[r].status = HTTP_400_BAD_REQUEST /\ req[r].err = "NotPending"

\* C3: in every committed state every Vendor balance and every PhoneNumber
\* balance is >= 0.
C3_BalancesNonNegative ==
    /\ \A v \in Vendors : vendors[v].balance >= 0
    /\ \A p \in Phones : phone_numbers[p].balance >= 0

\* a transfer that passed validate and would have overdrawn the vendor
C3_Witness ==
    \E r \in Reqs :
        /\ req[r].kind = "transfer" /\ req[r].pc = "done"
        /\ req[r].failed /\ faults = 0
        /\ req[r].amount > vendors[req[r].user].balance

\* the step in which transfer r is settled: no statement failed, 201 answered
TransferSucceeds(r) ==
    /\ req[r].kind = "transfer" /\ req[r].pc = "t_settle"
    /\ req'[r].pc = "done" /\ req'[r].status = HTTP_201_CREATED /\ ~req'[r].failed

\* C4: a successful transfer of A from vendor V to its phone P takes A from
\* V.balance, adds A to V.total_sell and to P.balance, creates exactly one
\* PhoneNumberTransaction (V, P, A, APPROVED), and leaves V.balance plus the
\* balances of V's phone numbers unchanged.
C4_TransferEffect ==
    [][\A r \in Reqs : TransferSucceeds(r) =>
        LET v == req[r].user
            p == req[r].phone
            a == req[r].amount
        IN /\ phone_numbers[p].vendor = v
           /\ vendors'[v].balance = vendors[v].balance - a
           /\ vendors'[v].total_sell = vendors[v].total_sell + a
           /\ phone_numbers'[p].balance = phone_numbers[p].balance + a
           /\ phone_transactions' = Append(phone_transactions,
                 [vendor |-> v, phone_number |-> p, amount |-> a, state |-> APPROVED])
           /\ vendors'[v].balance + SumBalances(phone_numbers', PhonesOf(v))
                 = vendors[v].balance + SumBalances(phone_numbers, PhonesOf(v))]_vars

C4_Witness ==
    \E r \in Reqs :
        /\ req[r].kind = "transfer" /\ req[r].pc = "done"
        /\ req[r].status = HTTP_201_CREATED /\ ~req[r].failed
        /\ req[r].amount = MaxAmount
        /\ Len(phone_transactions) = 1
        /\ phone_numbers[req[r].phone].balance = MaxAmount

\* C5: N >= 2 transfers of one vendor, submitted concurrently, whose amounts
\* together fit its balance: all succeed, the vendor's balance fell and its
\* total_sell rose by the sum, every phone rose by what was sent to it, and
\* there are exactly N new PhoneNumberTransaction rows.
C5_NoLostUpdate ==
    \A v \in Vendors :
        (/\ AllDone
         /\ faults = 0
         /\ Cardinality(Started) >= 2
         /\ \A r \in Started :
               /\ req[r].kind = "transfer" /\ req[r].user = v
               /\ req[r].amount > 0
               /\ req[r].phone \in DOMAIN phone_numbers
               /\ phone_numbers[req[r].phone].vendor = v
         /\ SumAmounts(Started) <= InitBalance)
        => /\ \A r \in Started : req[r].status = HTTP_201_CREATED /\ ~req[r].failed
           /\ vendors[v].balance = InitBalance - SumAmounts(Started)
           /\ vendors[v].total_sell = SumAmounts(Started)
           /\ \A p \in Phones : phone_numbers[p].balance =
                 SumAmounts({r \in Started : req[r].phone = p})
           /\ Len(phone_transactions) = Cardinality(Started)

\* every request is a transfer of v1, validated before any of them committed
C5_Witness ==
    /\ AllDone
    /\ Started = Reqs
    /\ \A r \in Reqs :
          /\ req[r].kind = "transfer" /\ req[r].user = "v1"
          /\ req[r].snap = InitBalance
          /\ req[r].status = HTTP_201_CREATED /\ ~req[r].failed
    /\ Len(phone_transactions) = MaxReq

\* C6: in every committed state a deposit is APPROVED exactly when its amount
\* has been added to its vendor's balance: what a vendor holds and has sold
\* is its initial balance plus the amounts of its APPROVED deposits.
C6_ApprovalAtomic ==
    \A v \in Vendors :
        vendors[v].balance + vendors[v].total_sell = InitBalance + SumApproved(v)

\* an approval whose vendor.save failed was rolled back, a later one applied
C6_Witness ==
    /\ \E r \in Reqs :
          /\ req[r].kind = "change_state" /\ req[r].pc = "done"
          /\ req[r].raised /\ req[r].w.state = APPROVED
    /\ \E t \in 1..Len(vendor_transactions) : vendor_transactions[t].state = APPROVED

\* C7: once a deposit is APPROVED or REJECTED its row never changes again, and
\* every change_state call that finishes on it answers 400 NotPending and
\* changes no table.
C7_TerminalImmutable ==
    [][/\ \A t \in 1..Len(vendor_transactions) :
             Terminal(t) => vendor_transactions'[t] = vendor_transactions[t]
       /\ \A r \in Reqs :
             (/\ req[r].kind = "change_state" /\ req[r].pc = "cs_settle"
              /\ req'[r].pc = "done"
              /\ Terminal(req[r].tx))
             => /\ req'[r].status = HTTP_400_BAD_REQUEST
                /\ req'[r].err = "NotPending"
                /\ UNCHANGED <<vendors, phone_numbers, vendor_transactions,
                               phone_transactions>>]_vars

C7_Witness ==
    \E r \in Reqs :
        /\ req[r].kind = "change_state" /\ req[r].pc = "done"
        /\ req[r].err = "NotPending"
        /\ req[r].state \in {APPROVED, REJECTED}
        /\ vendor_transactions[req[r].tx].state # req[r].state

\* C8: in every committed state, for every vendor, what transfers took from
\* its balance, what they gave to its phone numbers and the amounts of its
\* PhoneNumberTransaction rows are equal, whatever statement of a transfer
\* failed.
Debited(v) == InitBalance + SumApproved(v) - vendors[v].balance
C8_TransferAllOrNothing ==
    \A v \in Vendors :
        /\ Debited(v) = SumPhones(v)
        /\ SumPhones(v) = SumRows(v)

\* a transfer that failed after its debit, or after its debit and credit
C8_Witness ==
    \E r \in Reqs :
        /\ req[r].kind = "transfer" /\ req[r].pc = "done"
        /\ req[r].failed /\ req[r].w.balance < 0

\* C9: a transfer whose amount exceeds the vendor's balance when it is
\* applied (a concurrent transfer committed first) is rejected with
\* InsufficientBalance.
C9_OverdrawRejected ==
    \A r \in Reqs :
        (/\ req[r].kind = "transfer" /\ req[r].pc = "done"
         /\ req[r].snap >= req[r].amount
         /\ req[r].failed /\ req[r].w = NoWrites /\ faults = 0)
        => req[r].status = HTTP_400_BAD_REQUEST /\ req[r].err = "InsufficientBalance"

\* C10: a transfer answers success only if its debit, credit and
\* PhoneNumberTransaction row were committed (here with no store failure:
\* the only exception is the violated CHECK on the debit).
C10_SuccessMeansCommitted ==
    \A r \in Reqs :
        (/\ req[r].kind = "transfer" /\ req[r].pc = "done"
         /\ req[r].status = HTTP_201_CREATED
         /\ faults = 0)
        => ~req[r].failed /\ req[r].w.row
\* C11: a deposit request with amount > 0 appends one PENDING transaction
\* owned by the calling vendor and answers 201; one with amount <= 0 answers
\* 400 InvalidAmount and appends nothing; neither changes a balance.  A
\* vendor's balance grows only in a step that takes one of its transactions
\* from PENDING to APPROVED, so a transaction that stays PENDING has no effect.
C11_CreateDeposit ==
    [][ /\ \A r \in Reqs :
             req[r].pc = "idle" /\ req'[r].kind = "create_deposit" =>
               /\ vendors' = vendors
               /\ phone_numbers' = phone_numbers
               /\ phone_transactions' = phone_transactions
               /\ IF req'[r].amount > 0
                  THEN /\ req'[r].status = HTTP_201_CREATED
                       /\ vendor_transactions' =
                            Append(vendor_transactions,
                                   [vendor |-> req'[r].user,
                                    amount |-> req'[r].amount,
                                    state |-> PENDING,
                                    reject_reason |-> Omitted])
                  ELSE /\ req'[r].status = HTTP_400_BAD_REQUEST
                       /\ req'[r].err = "InvalidAmount"
                       /\ vendor_transactions' = vendor_transactions
        /\ \A v \in Vendors :
             vendors'[v].balance > vendors[v].balance =>
               \E t \in 1..Len(vendor_transactions) :
                  /\ vendor_transactions[t].vendor = v
                  /\ vendor_transactions[t].state = PENDING
                  /\ vendor_transactions'[t].state = APPROVED
                  /\ vendors'[v].balance =
                       vendors[v].balance + vendor_transactions[t].amount
      ]_vars

\* one deposit was created and is still PENDING, another was refused
C11_Witness ==
    \E r1, r2 \in Reqs :
       /\ req[r1].kind = "create_deposit" /\ req[r1].status = HTTP_201_CREATED
       /\ vendor_transactions[req[r1].tx].state = PENDING
       /\ vendor_transactions[req[r1].tx].vendor = req[r1].user
       /\ req[r2].kind = "create_deposit" /\ req[r2].err = "InvalidAmount"
       /\ req[r2].amount <= 0
       /\ \A v \in Vendors : vendors[v].balance = InitBalance

\* C12: a change_state call that asks for REJECTED and finds the transaction
\* PENDING under the lock succeeds unless the store fails, and when it
\* succeeds the transaction is REJECTED with the supplied reject_reason (the
\* empty string when none was supplied) while every balance, every total_sell
\* and every other row is as before.
C12_RejectEffect ==
    [][ \A r \in Reqs :
          /\ req[r].pc = "cs_settle" /\ req'[r].pc = "done"
          /\ req[r].state = REJECTED /\ req[r].obj_state = PENDING
          => /\ faults' = faults => req'[r].status = HTTP_200_OK
             /\ req'[r].status = HTTP_200_OK =>
                  /\ vendor_transactions' =
                       [vendor_transactions EXCEPT
                          ![req[r].tx].state = REJECTED,
                          ![req[r].tx].reject_reason =
                              IF req[r].reject_reason = Omitted THEN ""
                              ELSE req[r].reject_reason]
                  /\ vendors' = vendors
                  /\ phone_numbers' = phone_numbers
                  /\ phone_transactions' = phone_transactions
      ]_vars

\* a deposit was rejected with a reason and no balance moved
C12_Witness ==
    \E r \in Reqs :
       /\ req[r].kind = "change_state" /\ req[r].status = HTTP_200_OK
       /\ req[r].state = REJECTED /\ req[r].reject_reason = "why"
       /\ vendor_transactions[req[r].tx].state = REJECTED
       /\ vendor_transactions[req[r].tx].reject_reason = "why"
       /\ \A v \in Vendors :
             vendors[v].balance = InitBalance /\ vendors[v].total_sell = 0

\* The requests that are inside a handler, the row each one is about to
\* lock, and the place of a row in the order tx row, vendor row, phone row.
InFlight == {r \in Reqs : req[r].pc \notin {"idle", "done"}}
Awaits(r) ==
    IF req[r].pc = "cs_lock_tx" THEN VtxRow(req[r].tx)
    ELSE IF req[r].pc = "cs_settle"
    THEN VendorRow(vendor_transactions[req[r].tx].vendor)
    ELSE IF req[r].pc = "t_lock_vendor" THEN VendorRow(req[r].user)
    ELSE PhoneRow(req[r].phone)
Rank(row) ==
    IF row[1] = "vtx" THEN 1 ELSE IF row[1] = "vendor" THEN 2 ELSE 3

\* C13: concurrent change_state and transfer calls never deadlock.  Every
\* lock is held by a request still inside its handler, a request only waits
\* for a row that comes later in the order (tx row, vendor row, phone row)
\* than every row it holds, and whenever requests are inside a handler at
\* least one of them can take the row it waits for.
C13_NoDeadlock ==
    /\ \A l \in locks :
          l[2] \in InFlight /\ Rank(l[1]) < Rank(Awaits(l[2]))
    /\ InFlight # {} => \E r \in InFlight : RowFree(Awaits(r), r)

\* a change_state call holding its tx row waits for the vendor row that a
\* transfer holds, and the transfer can go on
C13_Witness ==
    \E r1, r2 \in InFlight :
       /\ req[r1].pc = "cs_settle" /\ <<VtxRow(req[r1].tx), r1>> \in locks
       /\ req[r2].pc = "t_settle" /\ <<Awaits(r1), r2>> \in locks
       /\ ~RowFree(Awaits(r1), r1)
       /\ RowFree(Awaits(r2), r2)

\* What one operation does when it runs alone on the committed tables.
SeqChangeState(t, s, reason) ==
    LET new == IF s = Omitted THEN vendor_transactions[t].state ELSE s
        v == vendor_transactions[t].vendor
    IN [vt |-> [vendor_transactions EXCEPT
                   ![t].state = new,
                   ![t].reject_reason = IF reason = Omitted THEN "" ELSE reason],
        vs |-> IF new = APPROVED
               THEN [vendors EXCEPT
                        ![v].balance = @ + vendor_transactions[t].amount]
               ELSE vendors]
SeqTransfer(v, p, a) ==
    [vs |-> [vendors EXCEPT ![v].balance = @ - a, ![v].total_sell = @ + a],
     pn |-> [phone_numbers EXCEPT ![p].balance = @ + a],
     pt |-> Append(phone_transactions,
                   [vendor |-> v, phone_number |-> p, amount |-> a,
                    state |-> APPROVED])]
Tables == <<vendors, phone_numbers, vendor_transactions, phone_transactions>>
Settles(r) == req[r].pc \in {"cs_settle", "t_settle"} /\ req'[r].pc = "done"

Responded(r) ==
    req[r].pc = "done" /\ (RunsCacheCode(req[r]) => r \in DOMAIN deleted)
Quiet == rd.pc = "idle" /\ \A r \in Started : Responded(r)

\* C15: after a successful mutation a later read through a cached path never
\* returns a value older than the committed state, also when a reader that
\* missed the cache ran beside the mutation.  For approvals and rejections:
\* once every change_state call has answered and no read is in progress,
\* every cached entry is what the store holds, so that the next read returns
\* the committed state.
C15_CacheCoherent ==
    (Quiet /\ \A r \in Started : req[r].kind = "change_state")
    => \A k \in DOMAIN cache : cache[k] = StoreValue(k)

\* the cached views of the entities a transfer touches
TransferTouches(q, k) ==
    \/ k.cls = "PhoneNumberTransactionViewSet" /\ k.kind = "list"
    \/ k.cls = "VendorViewSet" /\ (k.kind = "list" \/ k.pk = q.user)
    \/ k.cls = "PhoneNumberViewSet" /\ (k.kind = "list" \/ k.pk = q.phone)

\* C16: the cache code of a successful transfer invalidates the cached
\* detail and list entries of the source vendor, of the destination phone
\* number and of the PhoneNumberTransaction list: when it has run, no such
\* entry is left that shows other than the committed state.
C16_TransferInvalidates ==
    [][ \A r \in Reqs :
          /\ r \notin DOMAIN deleted /\ r \in DOMAIN deleted'
          /\ req[r].kind = "transfer" /\ ~req[r].failed
          => \A k \in DOMAIN cache' :
                TransferTouches(req[r], k) => cache'[k] = StoreValue(k)
      ]_vars

\* the cached views of a deposit and of its vendor
ChangeStateTouches(q, k) ==
    \/ /\ k.cls = "VendorTransactionViewSet"
       /\ k.kind = "list" \/ k.pk = ToString(q.tx)
    \/ /\ k.cls = "VendorViewSet"
       /\ k.kind = "list" \/ k.pk = vendor_transactions[q.tx].vendor

C18_InvalidationOnlyAfterCommit ==
    \A r \in DOMAIN deleted :
       /\ req[r].pc = "done"
       /\ ~req[r].failed /\ ~req[r].raised
       /\ req[r].err = "none"
       /\ req[r].kind = "transfer" => req[r].w.row

\* C19: the ledger does not depend on the cache.  The cache code of a
\* mutation never changes its response or a table; with the cache server
\* unreachable every read misses, returns what the store holds and answers
\* 200, nothing is cached, and no request answers with an error of the cache.
C19_LedgerIndependentOfCache ==
    [][ /\ \A r \in Reqs :
             r \notin DOMAIN deleted /\ r \in DOMAIN deleted'
             => req' = req /\ Tables' = Tables
        /\ ~cache_up =>
             /\ rd.pc = "idle" /\ rd'.n > rd.n =>
                  rd'.pc = "fill" /\ rd'.data = StoreValue(rd'.key)
             /\ rd.pc = "fill" /\ rd'.pc = "idle" =>
                  rd'.status = HTTP_200_OK
             /\ rd'.status # HTTP_500_SERVER_ERROR
             /\ cache' = <<>>
      ]_vars

\* with the cache server unreachable every read was answered and an approval
\* and a transfer went through their cache code
C19_Witness ==
    /\ ~cache_up
    /\ rd.pc = "idle" /\ rd.n = MaxReads /\ rd.status = HTTP_200_OK
    /\ \E r1, r2 \in DOMAIN deleted :
          /\ req[r1].kind = "change_state" /\ req[r1].status = HTTP_200_OK
          /\ vendor_transactions[req[r1].tx].state = APPROVED
          /\ req[r2].kind = "transfer" /\ req[r2].status = HTTP_201_CREATED
          /\ ~req[r2].failed
    /\ Len(phone_transactions) = 1

\* C20: a transfer whose preconditions have been evaluated and whose debit
\* is not yet written holds the lock on its vendor's row, and the balance
\* its validation read is still the vendor's balance.
C20_ValidatedUnderLock ==
    \A r \in Reqs :
       req[r].kind = "transfer" /\ req[r].pc \in {"t_lock_vendor", "t_settle"}
       => /\ <<VendorRow(req[r].user), r>> \in locks
          /\ vendors[req[r].user].balance = req[r].snap

\* the change_state calls that have read the state of their transaction and
\* have not yet left the atomic block
Observers(t) ==
    {r \in Reqs : req[r].kind = "change_state" /\ req[r].tx = t
                   /\ req[r].pc = "cs_settle"}

\* C21: a change_state call that has read the state of its transaction holds
\* the lock on the transaction's row and what it read is the committed
\* state, so no two calls are at once past the read of one transaction; the
\* lock is given up only in the step that leaves the atomic block, where
\* the state and the balance are committed together or NotPending is
\* answered.
C21_DecidesUnderLock ==
    [][ /\ \A t \in 1..Len(vendor_transactions') :
             /\ Cardinality(Observers(t)') <= 1
             /\ \A r \in Observers(t)' :
                   /\ <<VtxRow(t), r>> \in locks'
                   /\ req'[r].obj_state = vendor_transactions'[t].state
        /\ \A l \in locks \ locks' :
             l[1][1] = "vtx" =>
               /\ req[l[2]].pc = "cs_settle" /\ req'[l[2]].pc = "done"
               /\ req'[l[2]].status = HTTP_200_OK
                    <=> req[l[2]].obj_state = PENDING /\ ~req'[l[2]].raised
      ]_vars

\* one call has read PENDING under the lock while a second call for the same
\* transaction waits for the row
C21_Witness ==
    \E r1, r2 \in Reqs :
       /\ req[r1].kind = "change_state" /\ req[r1].pc = "cs_settle"
       /\ req[r1].obj_state = PENDING
       /\ req[r2].kind = "change_state" /\ req[r2].pc = "cs_lock_tx"
       /\ req[r2].tx = req[r1].tx
       /\ ~RowFree(VtxRow(req[r2].tx), r2)

\* C22: every write of a balance or of total_sell is made by an operation
\* that holds the lock on the account's row and starts from the value under
\* that lock: a vendor's balance or total_sell changes only in the step in
\* which an approval of its deposit or its own transfer commits, a phone
\* number's balance only when a transfer to it commits, and no step of an
\* update writes a value read earlier.
C22_WritesUnderLock ==
    [][ /\ \A v \in Vendors :
             vendors'[v] # vendors[v] =>
               \E r \in Reqs :
                  /\ Settles(r)
                  /\ \/ req[r].kind = "transfer" /\ req[r].user = v
                     \/ /\ req[r].kind = "change_state"
                        /\ vendor_transactions[req[r].tx].vendor = v
        /\ \A p \in DOMAIN phone_numbers \cap DOMAIN phone_numbers' :
             phone_numbers'[p] # phone_numbers[p] =>
               \E r \in Reqs :
                  Settles(r) /\ req[r].kind = "transfer" /\ req[r].phone = p
      ]_vars

\* the step in which request r ends without effect: a precondition was
\* refused, or its transaction was rolled back
Refused(r) ==
    /\ req[r].pc # "done" /\ req'[r].pc = "done"
    /\ req'[r].kind \in {"change_state", "transfer"}
    /\ \/ req'[r].err \in {"NotPending", "NotOwned", "InsufficientBalance",
                            "InvalidAmount"}
       \/ req'[r].failed

\* C23: an operation that ends on a failed precondition (NotPending;
\* NotOwned, InsufficientBalance, InvalidAmount, also the debit refused by
\* the CHECK constraint) leaves every account and transaction row as it
\* was and holds no lock afterwards, and every request that waited for a
\* row it held can take that row in the state that follows.
C23_FailureLeavesNoTrace ==
    [][ \A r \in Reqs : Refused(r) =>
          /\ Tables' = Tables
          /\ \A l \in locks' : l[2] # r
          /\ \A r2 \in Reqs \ {r} :
                (/\ req[r2].pc \in {"cs_lock_tx", "cs_settle", "t_lock_vendor"}
                 /\ <<Awaits(r2), r>> \in locks)
                => \A l \in locks' : l[1] = Awaits(r2) => l[2] = r2
      ]_vars

\* a call that locked the row of an APPROVED deposit was refused with
\* NotPending: no lock is left and the balance is that of the one approval
C23_Witness ==
    \E r1, r2 \in Reqs :
       /\ req[r1].kind = "change_state" /\ req[r1].status = HTTP_200_OK
       /\ req[r2].kind = "change_state" /\ req[r2].tx = req[r1].tx
       /\ req[r2].pc = "done" /\ req[r2].err = "NotPending"
       /\ req[r2].state = APPROVED /\ req[r2].obj_state = APPROVED
       /\ locks = {}
       /\ vendors[vendor_transactions[req[r2].tx].vendor].balance =
            InitBalance + vendor_transactions[req[r2].tx].amount

\* C24: a VendorTransaction carries a non-empty reject_reason only if its
\* state is REJECTED.
C24_ReasonOnlyWhenRejected ==
    \A t \in 1..Len(vendor_transactions) :
       vendor_transactions[t].reject_reason \notin {Omitted, ""}
       => vendor_transactions[t].state = REJECTED

\* C25: a VendorTransaction only ever goes from PENDING to APPROVED or from
\* PENDING to REJECTED, hence at most once; no row disappears, and the
\* vendor and the amount of a row never change.
C25_TransitionsOnlyFromPending ==
    [][ /\ Len(vendor_transactions') >= Len(vendor_transactions)
        /\ \A t \in 1..Len(vendor_transactions) :
             /\ vendor_transactions'[t].vendor = vendor_transactions[t].vendor
             /\ vendor_transactions'[t].amount = vendor_transactions[t].amount
             /\ vendor_transactions'[t].state # vendor_transactions[t].state
                => /\ vendor_transactions[t].state = PENDING
                   /\ vendor_transactions'[t].state \in {APPROVED, REJECTED}
                   /\ \E r \in Reqs :
                        /\ req[r].kind = "change_state" /\ req[r].tx = t
                        /\ req[r].user = Admin
                        /\ req'[r].status = HTTP_200_OK
      ]_vars

\* a deposit was rejected and the later call that asks to approve it was
\* refused: the row is still REJECTED
C25_Witness ==
    \E r1, r2 \in Reqs :
       /\ req[r1].kind = "change_state" /\ req[r1].state = REJECTED
       /\ req[r1].status = HTTP_200_OK
       /\ req[r2].kind = "change_state" /\ req[r2].tx = req[r1].tx
       /\ req[r2].state = APPROVED /\ req[r2].pc = "done"
       /\ req[r2].obj_state = REJECTED
       /\ vendor_transactions[req[r1].tx].state = REJECTED

\* C26: a vendor's total_sell never decreases, and it grows only by the
\* amount of a transfer of that vendor in the step that settles it.
C26_TotalSellMonotone ==
    [][ \A v \in Vendors :
          /\ vendors'[v].total_sell >= vendors[v].total_sell
          /\ vendors'[v].total_sell > vendors[v].total_sell =>
               \E r \in Reqs :
                  /\ Settles(r) /\ req[r].kind = "transfer" /\ req[r].user = v
                  /\ vendors'[v].total_sell =
                       vendors[v].total_sell + req[r].amount
                  /\ Len(phone_transactions') = Len(phone_transactions) + 1
      ]_vars

\* C27: every PhoneNumberTransaction row has state APPROVED, an amount > 0
\* and a phone number owned by the row's vendor.  A transfer to a phone
\* number that has no row or belongs to another vendor is refused at once
\* with 400 and changes nothing; the error is NotOwned whenever the amount
\* is positive.
C27_RowsWellFormed ==
    [][ /\ \A i \in 1..Len(phone_transactions') :
             LET row == phone_transactions'[i] IN
             /\ row.state = APPROVED
             /\ row.amount > 0
             /\ row.phone_number \in DOMAIN phone_numbers'
             /\ phone_numbers'[row.phone_number].vendor = row.vendor
        /\ \A r \in Reqs :
             (/\ req[r].pc = "idle" /\ req'[r].kind = "transfer"
              /\ \/ req'[r].phone \notin DOMAIN phone_numbers
                 \/ phone_numbers[req'[r].phone].vendor # req'[r].user)
             => /\ req'[r].pc = "done"
                /\ req'[r].status = HTTP_400_BAD_REQUEST
                /\ req'[r].amount > 0 => req'[r].err = "NotOwned"
                /\ Tables' = Tables /\ locks' = locks
      ]_vars

\* a transfer made a row, and a transfer to a phone number without a row
\* was refused
C27_Witness ==
    \E r1, r2 \in Reqs :
       /\ req[r1].kind = "transfer" /\ req[r1].status = HTTP_201_CREATED
       /\ ~req[r1].failed /\ Len(phone_transactions) = 1
       /\ phone_transactions[1].phone_number = req[r1].phone
       /\ req[r2].kind = "transfer" /\ req[r2].phone = NoPhone
       /\ req[r2].amount > 0 /\ req[r2].err = "NotOwned"

\* C28: the error of a refused transfer is that of the first violated
\* precondition in the order amount > 0, ownership, balance: a transfer with
\* amount <= 0 is refused with InvalidAmount whatever else fails.
C28_AmountCheckedFirst ==
    \A r \in Reqs :
       req[r].kind = "transfer" /\ req[r].pc = "done" /\ req[r].amount <= 0
       => req[r].err = "InvalidAmount"

\* C29: terminal transaction rows are never modified or removed: every
\* APPROVED or REJECTED VendorTransaction and every PhoneNumberTransaction
\* of a state is there, unchanged, in the next.
C29_TerminalRowsKept ==
    [][ /\ Len(vendor_transactions') >= Len(vendor_transactions)
        /\ \A t \in 1..Len(vendor_transactions) :
             Terminal(t) => vendor_transactions'[t] = vendor_transactions[t]
        /\ Len(phone_transactions') >= Len(phone_transactions)
        /\ \A i \in 1..Len(phone_transactions) :
             phone_transactions'[i] = phone_transactions[i]
      ]_vars

\* C30: a change_state call that answers 200 returns the state now stored
\* for the transaction and the vendor's balance as committed by this step:
\* the balance before the step plus the amount for an approval, the balance
\* before the step otherwise.
C30_ResponseIsCommittedView ==
    [][ \A r \in Reqs :
          (/\ req[r].pc = "cs_settle" /\ req'[r].pc = "done"
           /\ req'[r].status = HTTP_200_OK)
          => LET t == req[r].tx
                 v == vendor_transactions[t].vendor
             IN /\ req'[r].resp_state = vendor_transactions'[t].state
                /\ req'[r].resp_balance = vendors'[v].balance
                /\ req'[r].resp_balance =
                     vendors[v].balance +
                       (IF vendor_transactions'[t].state = APPROVED
                        THEN vendor_transactions[t].amount ELSE 0)
      ]_vars

\* an approval answered the balance that holds after a transfer which
\* committed while the approval waited for the vendor's row
C30_Witness ==
    \E r1, r2 \in Reqs :
       /\ req[r1].kind = "change_state" /\ req[r1].status = HTTP_200_OK
       /\ req[r1].resp_state = APPROVED
       /\ req[r1].resp_balance # req[r1].snap + vendor_transactions[req[r1].tx].amount
       /\ req[r2].kind = "transfer" /\ req[r2].status = HTTP_201_CREATED
       /\ ~req[r2].failed
       /\ req[r1].resp_balance = vendors[req[r2].user].balance

\* the vendor whose accounts request q works on
AccountOf(q) ==
    IF q.kind = "transfer" THEN q.user
    ELSE vendor_transactions[q.tx].vendor

\* what a transfer of a by v to p makes of v when it runs alone from Init
Alone(v, p, a) ==
    IF a > 0 /\ p \in PhonesOf(v)
    THEN [balance |-> InitBalance - a, total_sell |-> a]
    ELSE [balance |-> InitBalance, total_sell |-> 0]

\* C31: operations on unrelated accounts are independent.  No step of a
\* transfer by vendor A or of a change_state on a deposit of A changes the
\* row of another vendor or of a phone number A does not own; and when
\* transfers of different vendors have all been answered (no store failure),
\* each vendor is where its transfer run alone leaves it, a valid one
\* answered 201.
C31_UnrelatedAccountsIndependent ==
    /\ [][ \A r \in Reqs :
             (req'[r] # req[r] /\ req'[r].kind \in {"transfer", "change_state"})
             => /\ \A u \in Vendors \ {AccountOf(req'[r])} :
                      vendors'[u] = vendors[u]
                /\ \A p \in Phones :
                      phone_numbers[p].vendor # AccountOf(req'[r])
                         => phone_numbers'[p] = phone_numbers[p]
          ]_vars
    /\ []( (/\ AllDone /\ faults = 0
            /\ Cardinality(Started) >= 2
            /\ \A r \in Started : req[r].kind = "transfer"
            /\ \A r1, r2 \in Started : r1 # r2 => req[r1].user # req[r2].user)
           => \A r \in Started :
                 /\ vendors[req[r].user] =
                       Alone(req[r].user, req[r].phone, req[r].amount)
                 /\ Alone(req[r].user, req[r].phone, req[r].amount).total_sell > 0
                       => req[r].status = HTTP_201_CREATED )

\* the transfer of v1 has committed while the transfer of v2 holds the lock
\* on its own vendor row: v2 is as it was
C31_Witness ==
    \E r1, r2 \in Reqs :
        /\ req[r1].kind = "transfer" /\ req[r1].user = "v1"
        /\ req[r1].pc = "done" /\ req[r1].status = HTTP_201_CREATED
        /\ req[r2].kind = "transfer" /\ req[r2].user = "v2"
        /\ req[r2].pc = "t_settle"
        /\ <<VendorRow("v2"), r2>> \in locks
        /\ vendors["v1"].total_sell = req[r1].amount
        /\ vendors["v2"] = [balance |-> InitBalance, total_sell |-> 0]

\* C33: an update of a vendor's or of a phone number's profile leaves the
\* balance and total_sell of every row as they are in the store when it
\* saves, whatever committed since it read the row.
C33_UpdateKeepsBalances ==
    [][ \A r \in Reqs :
          (req[r].kind \in {"vendor_update", "phone_update"}
           /\ req[r].pc # "done" /\ req'[r].pc = "done")
          => /\ vendors' = vendors
             /\ \A p \in DOMAIN phone_numbers :
                   /\ p \in DOMAIN phone_numbers'
                   /\ phone_numbers'[p].balance = phone_numbers[p].balance
      ]_vars

RECURSIVE SumToUpTo(_, _)
SumToUpTo(p, n) ==
    IF n = 0 THEN 0
    ELSE SumToUpTo(p, n - 1) +
         (IF phone_transactions[n].phone_number = p
          THEN phone_transactions[n].amount ELSE 0)
\* sum of the amounts of the PhoneNumberTransaction rows addressed to p
SumTo(p) == SumToUpTo(p, Len(phone_transactions))

\* C34: in every committed state reached by deposit creation, change_state
\* and transfer, a vendor's balance is its initial balance plus the amounts
\* of its APPROVED deposits minus the amounts of its PhoneNumberTransactions,
\* and a phone number's balance is the sum of the amounts of the
\* PhoneNumberTransactions addressed to it (it starts at 0).
C34_BalancesAreLedgerSums ==
    /\ \A v \in Vendors :
          vendors[v].balance = InitBalance + SumApproved(v) - SumRows(v)
    /\ \A p \in Phones : phone_numbers[p].balance = SumTo(p)

\* a deposit of v1 is approved and v1 has transferred to one of its phones
C34_Witness ==
    /\ AllDone
    /\ SumApproved("v1") > 0
    /\ SumRows("v1") > 0
    /\ \E p \in Phones : SumTo(p) = SumRows("v1")
    /\ vendors["v1"].balance # InitBalance

\* C35: every change_state call that answers 200 leaves its transaction
\* APPROVED or REJECTED; a call without a state, or asking for PENDING,
\* never answers 200 with the transaction still PENDING.
C35_SuccessIsTerminal ==
    [][ \A r \in Reqs :
          (/\ req[r].kind = "change_state" /\ req[r].pc = "cs_settle"
           /\ req'[r].pc = "done" /\ req'[r].status = HTTP_200_OK)
          => vendor_transactions'[req[r].tx].state \in {APPROVED, REJECTED}
      ]_vars

\* C32: when the cache code of a successful create runs (the cache server
\* answering), every cached list response of that viewset that lacks the
\* new item is deleted, whatever query string it was cached under.  The
\* lists looked at hold another row of the creating vendor: they were
\* cached for a user whose list the new item belongs in.
C32_CreateInvalidatesLists ==
    [][ \A r \in Reqs :
          (/\ req[r].kind = "create_deposit"
           /\ req[r].status = HTTP_201_CREATED
           /\ r \notin DOMAIN deleted /\ r \in DOMAIN deleted'
           /\ cache_up)
          => \A k \in DOMAIN cache :
                (/\ k.cls = "VendorTransactionViewSet" /\ k.kind = "list"
                 /\ req[r].tx \notin DOMAIN cache[k][2]
                 /\ \E t \in DOMAIN cache[k][2] :
                       cache[k][2][t].vendor = req[r].user)
                => k \notin DOMAIN cache'
      ]_vars

\* the rows a user may be shown: all of them for the admin, its own for a
\* vendor
Visible(user, data) ==
    \/ user = Admin
    \/ IF data[1] = "vendor_transactions"
       THEN \A t \in DOMAIN data[2] : data[2][t].vendor = user
       ELSE data[2].vendor = user

\* C36: a list or detail answered from the cache holds only rows the
\* requester may see in the store: a vendor is never answered with what was
\* cached for the admin or for another vendor.
C36_CacheRespectsQueryset ==
    (/\ rd.pc = "idle" /\ rd.status = HTTP_200_OK
     /\ rd.key.kind \in {"list", "detail"})
    => Visible(rd.user, rd.data)

\* C37: a token request with a wrong password is never answered 200.
C37_TokenOnlyForValidCredentials ==
    rd.password = "wrong" => rd.status # HTTP_200_OK

\* C38: the patterns of an instance match a cached key exactly when the key
\* is of the instance's own viewset and is a list key or a detail key of
\* the instance's pk.
C38_PatternsMatchOwnKeys ==
    \A k \in DOMAIN cache : \A model \in Models, pk \in InstancePks :
        (\E pattern \in RelatedPatterns(model, pk) : glob(pattern, k))
        <=> /\ cache[k].model = model
            /\ cache[k].kind = "list" \/ cache[k].pk = pk

====
